---------------------------- MODULE Spec2Model ----------------------------
(* A model of the tictactoe3 game engine (lib/model.py, class Game) and of *)
(* the way the front end drives it (lib/main.py).                          *)
(*                                                                         *)
(* The state is the Game object's attributes.  Two more variables record   *)
(* what a caller of the last operation observed: the signals pydispatch    *)
(* delivered during the call (each with what a synchronous receiver reads  *)
(* from the game at that moment) and whether the call returned or raised.  *)
EXTENDS Integers, Sequences, FiniteSets, TLC

(***************************************************************************)
(* Module constants of lib/model.py                                        *)
(***************************************************************************)
BLANK == "_"
RED == "X"
BLUE == "O"
None == "None"

SIZE == 3
SQUARES_PER_LEVEL == SIZE * SIZE
TOTAL_SQUARES == SIZE * SIZE * SIZE
SPECIAL_SQUARES_one_sided == {0, 2, 6, 7}

SPECIAL_SQUARES == {1, 2, 6, 7}
RANGE_SIZE == <<0, 1, 2>>
RANGE_SIZE_REVERSED == <<2, 1, 0>>
TICTACTOE_VALUE == 1
SPECIAL_TICTACTOE_VALUE == 2

STATUS_ONLY_UP == "The only way is up!"
STATUS_TIE == "A tie!"
STATUS_WINNER == "%s wins!!!"
STATUS_POINTS_EARNED == "%s point%s!"

WRONG_LEVEL == "Wrong level"
SQUARE_TAKEN == "Square taken"
RETURNED == "returned"

(***************************************************************************)
(* Bounds of the exploration                                               *)
(***************************************************************************)
\* How many times per game a click may land on the second empty square of
\* the current level in PREFERRED order instead of the first.
MaxFree == 1

\* The order in which the players fill a level when they do not deviate.
PREFERRED ==
    << <<0, 0>>, <<0, 1>>, <<1, 0>>, <<0, 2>>, <<2, 0>>,
       <<1, 2>>, <<1, 1>>, <<2, 1>>, <<2, 2>> >>

Players == {RED, BLUE}
Coords == {RANGE_SIZE[k] : k \in 1..SIZE}

\* Game.iter_xyz: every (x, y, z) of the board
iter_xyz == {<<x, y, z>> : x \in Coords, y \in Coords, z \in Coords}

VARIABLES
    board,         \* Game.board: xyz -> Square (value, special)
    scores,        \* Game.scores
    move_count,    \* Game.move_count
    first_player,  \* Game.first_player
    status,        \* Game.status: list of (fmt, args)
    sent,          \* signals dispatched during the last call, in order
    result,        \* how the last call ended: returned, or the ValueError raised
    op,            \* the last call: "reset" or "move"
    successes,     \* calls of move that returned since the last reset
    free,          \* deviations from PREFERRED order used in this game
    waiting,       \* Scheduler.waiting: list of (ticks, callback)
    now,           \* pygame.time.get_ticks()
    called,        \* the (ticks, callback) the last tick called, in order
    raised         \* how the last call of the scheduler ended

\* the scheduler's part of the state
timers == <<waiting, now, called, raised>>

vars == <<board, scores, move_count, first_player, status, sent, result, op,
          successes, free, waiting, now, called, raised>>

(***************************************************************************)
(* Square                                                                  *)
(***************************************************************************)
Square_reset_special == [value |-> BLANK, special |-> TRUE]

\* Square.reset
Square_reset == [value |-> BLANK, special |-> FALSE]

(***************************************************************************)
(* Properties of Game                                                      *)
(***************************************************************************)
done_one_early(mc) == mc = TOTAL_SQUARES - 1

done(mc) == mc = TOTAL_SQUARES

current_level_per_row(mc) == mc \div SIZE

current_level(mc) == mc \div SQUARES_PER_LEVEL

other_player(player) == IF player = RED THEN BLUE ELSE RED

current_player(mc, fp) ==
    LET odd == mc % 2
    IN  IF odd # 0 THEN other_player(fp) ELSE fp

current_move_special_one_based(mc) ==
    (mc % SQUARES_PER_LEVEL) + 1 \in SPECIAL_SQUARES

current_move_special(mc) == (mc % SQUARES_PER_LEVEL) \in SPECIAL_SQUARES

winner_lower(sc) ==
    IF sc[RED] < sc[BLUE] THEN RED
    ELSE IF sc[BLUE] < sc[RED] THEN BLUE
    ELSE None

winner(sc) ==
    LET difference == sc[RED] - sc[BLUE]
    IN  IF difference = 0 THEN None
        ELSE IF difference > 0 THEN RED
        ELSE BLUE

(***************************************************************************)
(* The winning paths                                                       *)
(***************************************************************************)
invert(i) == SIZE - 1 - i

RECURSIVE Flatten(_)
Flatten(lists) ==
    IF lists = <<>> THEN <<>> ELSE Head(lists) \o Flatten(Tail(lists))

\* A list comprehension [e(i) for i in RANGE] is written
\* [k \in 1..SIZE |-> e(RANGE[k])] below.
Up(k) == RANGE_SIZE[k]
Down(k) == RANGE_SIZE_REVERSED[k]

\* tic-tac-toe within level z: rows, columns, diagonals
LevelPaths(z) ==
    [j \in 1..SIZE |-> [k \in 1..SIZE |-> <<Up(k), Up(j), z>>]]
      \o [j \in 1..SIZE |-> [k \in 1..SIZE |-> <<Up(j), Up(k), z>>]]
      \o << [k \in 1..SIZE |-> <<Up(k), Up(k), z>>],
            [k \in 1..SIZE |-> <<invert(Up(k)), Up(k), z>>] >>

ColumnPaths_upward(x) ==
    [j \in 1..SIZE |-> [k \in 1..SIZE |-> <<x, Up(j), Up(k)>>]]
      \o << [k \in 1..SIZE |-> <<x, Down(k), Down(k)>>],
            [k \in 1..SIZE |-> <<x, invert(Down(k)), Down(k)>>] >>

\* tic-tac-toe across levels for a given x: vertical lines, column stairs
ColumnPaths(x) ==
    [j \in 1..SIZE |-> [k \in 1..SIZE |-> <<x, Up(j), Down(k)>>]]
      \o << [k \in 1..SIZE |-> <<x, Down(k), Down(k)>>],
            [k \in 1..SIZE |-> <<x, invert(Down(k)), Down(k)>>] >>

RowStairs_flat(y) ==
    << [k \in 1..SIZE |-> <<Down(k), y, Down(k)>>],
       [k \in 1..SIZE |-> <<invert(Down(k)), y, Up(1)>>] >>

\* row stairs for a given y
RowStairs(y) ==
    << [k \in 1..SIZE |-> <<Down(k), y, Down(k)>>],
       [k \in 1..SIZE |-> <<invert(Down(k)), y, Down(k)>>] >>

DiagonalStairs_uninverted ==
    << [k \in 1..SIZE |-> <<Down(k), Down(k), Down(k)>>],
       [k \in 1..SIZE |-> <<Down(k), invert(Down(k)), Down(k)>>],
       [k \in 1..SIZE |-> <<invert(Down(k)), Down(k), Down(k)>>],
       [k \in 1..SIZE |-> <<Down(k), Down(k), Down(k)>>] >>

DiagonalStairs ==
    << [k \in 1..SIZE |-> <<Down(k), Down(k), Down(k)>>],
       [k \in 1..SIZE |-> <<Down(k), invert(Down(k)), Down(k)>>],
       [k \in 1..SIZE |-> <<invert(Down(k)), Down(k), Down(k)>>],
       [k \in 1..SIZE |-> <<invert(Down(k)), invert(Down(k)), Down(k)>>] >>

\* Game._calc_winning_paths: the list cls._winning_paths
_winning_paths ==
    Flatten([j \in 1..SIZE |-> LevelPaths(Up(j))])
      \o Flatten([j \in 1..SIZE |-> ColumnPaths(Up(j))])
      \o Flatten([j \in 1..SIZE |-> RowStairs(Up(j))])
      \o DiagonalStairs

InPath(xyz, path) == \E k \in 1..Len(path) : path[k] = xyz

(***************************************************************************)
(* Game._handle_tictactoe                                                  *)
(***************************************************************************)
\* the inner loop: how many squares of the path hold the player's value
Hits(b, player, path) ==
    Cardinality({k \in 1..Len(path) : b[path[k]].value = player})

SpecialHits(b, player, path) ==
    Cardinality({k \in 1..Len(path) :
                    b[path[k]].value = player /\ b[path[k]].special})

SkipAbove_or_level(z, path) == z <= path[1][3]

\* "The only way is up!": skip a path that starts above the move
SkipAbove(z, path) == z < path[1][3]

PathPoints_both(hits, special_hits) ==
    (IF special_hits = SIZE THEN SPECIAL_TICTACTOE_VALUE ELSE 0)
      + (IF hits = SIZE THEN TICTACTOE_VALUE ELSE 0)

PathPoints_any_special(hits, special_hits) ==
    IF hits = SIZE
    THEN (IF special_hits > 0 THEN SPECIAL_TICTACTOE_VALUE ELSE TICTACTOE_VALUE)
    ELSE 0

\* what one path adds to points_earned
PathPoints(hits, special_hits) ==
    IF special_hits = SIZE THEN SPECIAL_TICTACTOE_VALUE
    ELSE IF hits = SIZE THEN TICTACTOE_VALUE
    ELSE 0

PathIncluded_nearly(hits, path) == IF hits >= SIZE - 1 THEN path ELSE <<>>

\* what one path adds to xyzs_included
PathIncluded(hits, path) == IF hits = SIZE THEN path ELSE <<>>

\* The loop over self._winning_paths, from path number i on, with the
\* accumulators points_earned and xyzs_included.
RECURSIVE ScanPaths(_, _, _, _, _)
ScanPaths(b, player, xyz, i, acc) ==
    IF i > Len(_winning_paths) THEN acc
    ELSE LET path == _winning_paths[i]
         IN  IF SkipAbove(xyz[3], path) \/ ~InPath(xyz, path)
             THEN ScanPaths(b, player, xyz, i + 1, acc)
             ELSE LET hits == Hits(b, player, path)
                      special_hits == SpecialHits(b, player, path)
                  IN  ScanPaths(b, player, xyz, i + 1,
                        [points_earned |-> acc.points_earned
                                             + PathPoints(hits, special_hits),
                         xyzs_included |-> acc.xyzs_included
                                             \o PathIncluded(hits, path)])

Plural_always(points_earned) == "s"

Plural(points_earned) == IF points_earned # 1 THEN "s" ELSE ""

(***************************************************************************)
(* pydispatch: what a receiver of a signal gets and can read               *)
(***************************************************************************)
Occupied(b) == Cardinality({xyz \in iter_xyz : b[xyz].value # BLANK})

\* a delivered signal, with what the receiver reads from the game meanwhile
Signal(signal, xyzs_included, occupied, mc, st) ==
    [signal |-> signal, xyzs_included |-> xyzs_included,
     move_count |-> mc, occupied |-> occupied, nstatus |-> Len(st)]

(***************************************************************************)
(* Game.reset                                                              *)
(***************************************************************************)
RESET_SIGNALS_table_order ==
    <<"BOARD CHANGED", "SCORE CHANGED", "PLAYER CHANGED",
      "LEVEL CHANGED", "STATUS CHANGED">>

\* the signals reset sends, in the order of its loop
RESET_SIGNALS ==
    <<"LEVEL CHANGED", "SCORE CHANGED", "BOARD CHANGED",
      "PLAYER CHANGED", "STATUS CHANGED">>

\* the first players reset may end up with: random.choice when none is given
first_player_choices_ignoring(fp_arg) == {RED, BLUE}

first_player_choices(fp_arg) ==
    IF fp_arg = None THEN {RED, BLUE} ELSE {fp_arg}

reset(fp_arg) ==
    /\ first_player' \in first_player_choices(fp_arg)
    /\ board' = [xyz \in iter_xyz |-> Square_reset]
    /\ scores' = [i \in {RED, BLUE} |-> 0]
    /\ move_count' = 0
    /\ status' = <<>>
    /\ sent' = [k \in 1..Len(RESET_SIGNALS) |->
                  Signal(RESET_SIGNALS[k], <<>>, Occupied(board'),
                         move_count', status')]
    /\ result' = RETURNED
    /\ op' = "reset"

(***************************************************************************)
(* Game.move                                                               *)
(***************************************************************************)
\* the two checks at the top of move
WrongLevel_above(xyz, mc) == xyz[3] > current_level(mc)

WrongLevel(xyz, mc) == xyz[3] # current_level(mc)
Taken(xyz, b) == ~(b[xyz].value = BLANK)

raise_after_clearing(message) ==
    /\ result' = message
    /\ sent' = <<>>
    /\ op' = "move"
    /\ status' = <<>>
    /\ UNCHANGED <<board, scores, move_count, first_player>>

\* raise ValueError(message): move ends here, nothing sent
raise(message) ==
    /\ result' = message
    /\ sent' = <<>>
    /\ op' = "move"
    /\ UNCHANGED <<board, scores, move_count, first_player, status>>

\* self.move_count += 1
increment_twice(mc) == mc + 2

increment(mc) == mc + 1

\* new_level = self.move_count % SQUARES_PER_LEVEL == 0
new_level_per_row(mc) == mc % SIZE = 0

new_level_after_first(mc) == mc % SQUARES_PER_LEVEL = 1

new_level(mc) == mc % SQUARES_PER_LEVEL = 0

\* the body of move after the checks, and _handle_tictactoe inside it
move_body(xyz) ==
    LET player == current_player(move_count, first_player)
        board1 == [board EXCEPT ![xyz] =
                     [value |-> player,
                      special |-> current_move_special(move_count)]]
        occ1 == Occupied(board1)
        sent1 == <<Signal("BOARD CHANGED", <<>>, occ1, move_count, <<>>)>>
        h == ScanPaths(board1, player, xyz, 1,
                       [points_earned |-> 0, xyzs_included |-> <<>>])
        earned == h.points_earned # 0
        scores1 == IF earned
                   THEN [scores EXCEPT ![player] = @ + h.points_earned]
                   ELSE scores
        sent2 == IF earned
                 THEN Append(sent1, Signal("SCORE CHANGED", h.xyzs_included,
                                           occ1, move_count, <<>>))
                 ELSE sent1
        status2 == IF earned
                   THEN << <<STATUS_POINTS_EARNED,
                             <<h.points_earned, Plural(h.points_earned)>> >> >>
                   ELSE <<>>
        mc1 == increment(move_count)
        sent3 == Append(sent2, Signal("PLAYER CHANGED", <<>>, occ1, mc1, status2))
        sent4 == IF new_level(mc1)
                 THEN Append(sent3, Signal("LEVEL CHANGED", <<>>, occ1, mc1, status2))
                 ELSE sent3
        status3 == IF 0 < mc1 /\ ~done(mc1) /\ new_level(mc1)
                   THEN Append(status2, <<STATUS_ONLY_UP, <<>> >>)
                   ELSE status2
        status4 == IF done(mc1)
                   THEN IF winner(scores1) = None
                        THEN Append(status3, <<STATUS_TIE, <<>> >>)
                        ELSE Append(status3, <<STATUS_WINNER, <<winner(scores1)>> >>)
                   ELSE status3
    IN  /\ board' = board1
        /\ scores' = scores1
        /\ move_count' = mc1
        /\ status' = status4
        /\ sent' = Append(sent4, Signal("STATUS CHANGED", <<>>, occ1, mc1, status4))
        /\ result' = RETURNED
        /\ op' = "move"
        /\ UNCHANGED first_player

move_taken_first(xyz) ==
    IF Taken(xyz, board) THEN raise(SQUARE_TAKEN)
    ELSE IF WrongLevel(xyz, move_count) THEN raise(WRONG_LEVEL)
    ELSE move_body(xyz)

move(xyz) ==
    IF WrongLevel(xyz, move_count) THEN raise(WRONG_LEVEL)
    ELSE IF Taken(xyz, board) THEN raise(SQUARE_TAKEN)
    ELSE move_body(xyz)

(***************************************************************************)
(* Scheduler (lib/scheduler.py)                                            *)
(***************************************************************************)
MaxNow == 2
MaxWaiting == 2

\* the delays set_timer is called with, in ticks of the clock
Delays == {1, 2}

VALUE_ERROR == "ValueError"

\* The callbacks given to set_timer.  FIX_COLOR stands for Ball.fix_color,
\* which leaves the scheduler alone; REARM is a callback that calls
\* set_timer(1, FIX_COLOR); CANCEL is a callback that calls
\* set_timer(0, FIX_COLOR).
FIX_COLOR == "fix_color"
REARM == "rearm"
CANCEL == "cancel"
Callbacks == {FIX_COLOR, REARM, CANCEL}

\* x in list
Contains(list, x) == \E k \in 1..Len(list) : list[k] = x

\* list.remove(x) for x in list: the list without the first x
list_remove(list, x) ==
    LET i == CHOOSE k \in 1..Len(list) :
                /\ list[k] = x
                /\ \A j \in 1..(k - 1) : list[j] # x
    IN  SubSeq(list, 1, i - 1) \o SubSeq(list, i + 1, Len(list))

\* for (ticks_, callback_) in to_remove: self.waiting.remove(...); every
\* member of to_remove is in the list, once for each time it is in to_remove
RECURSIVE remove_each(_, _)
remove_each(list, to_remove) ==
    IF to_remove = <<>> THEN list
    ELSE remove_each(list_remove(list, Head(to_remove)), Tail(to_remove))

\* Scheduler.set_timer on the waiting list w when the clock reads clock: the
\* new waiting list
set_timer(w, clock, milliseconds, callback) ==
    IF milliseconds = 0
    THEN LET to_remove == SelectSeq(w, LAMBDA e : e[2] = callback)
         IN  remove_each(w, to_remove)
    ELSE Append(w, <<clock + milliseconds, callback>>)

\* callback(): what the call does to the waiting list.  The clock has
\* millisecond ticks and a callback runs within the frame, so the set_timer
\* it calls reads the time tick read.
callback_body(callback, w, clock) ==
    IF callback = REARM THEN set_timer(w, clock, 1, FIX_COLOR)
    ELSE IF callback = CANCEL THEN set_timer(w, clock, 0, FIX_COLOR)
    ELSE w

\* the loop of tick over to_call from its i-th member on; remove raises
\* ValueError when the entry is no longer in the waiting list, and the
\* exception ends tick
RECURSIVE tick_loop(_, _, _, _, _)
tick_loop(to_call, i, w, clock, done_calls) ==
    IF i > Len(to_call)
    THEN [waiting |-> w, called |-> done_calls, raised |-> None]
    ELSE IF ~Contains(w, to_call[i])
    THEN [waiting |-> w, called |-> done_calls, raised |-> VALUE_ERROR]
    ELSE tick_loop(to_call, i + 1,
                   callback_body(to_call[i][2], list_remove(w, to_call[i]), clock),
                   clock, Append(done_calls, to_call[i]))

\* Scheduler.tick
tick(w, clock) ==
    LET to_call == SelectSeq(w, LAMBDA e : clock >= e[1])
    IN  tick_loop(to_call, 1, w, clock, <<>>)

\* Scheduler.__init__
Scheduler__init__ ==
    /\ waiting = <<>>
    /\ now = 0
    /\ called = <<>>
    /\ raised = None

(***************************************************************************)
(* The front end (lib/main.py): clicks and the R key                       *)
(***************************************************************************)
\* the squares of the current level that are still empty, as indexes of
\* PREFERRED
Open(b, mc) ==
    {k \in 1..Len(PREFERRED) :
        b[<<PREFERRED[k][1], PREFERRED[k][2], current_level(mc)>>].value = BLANK}

\* how many empty squares precede xyz in PREFERRED order; 0 for a click that
\* move will refuse
Deviation(xyz) ==
    IF WrongLevel(xyz, move_count) \/ Taken(xyz, board) THEN 0
    ELSE LET open == Open(board, move_count)
             k0 == CHOOSE k \in open : <<PREFERRED[k][1], PREFERRED[k][2]>>
                                          = <<xyz[1], xyz[2]>>
         IN  Cardinality({k \in open : k < k0})

\* MOUSEBUTTONDOWN on the square xyz: game_model.move(xyz), ValueError ignored
MouseButtonDown(xyz) ==
    LET deviation == Deviation(xyz)
    IN  /\ deviation \in {0, 1}
        /\ free + deviation <= MaxFree
        /\ move(xyz)
        /\ successes' = IF result' = RETURNED THEN successes + 1 ELSE successes
        /\ free' = free + deviation
        /\ UNCHANGED timers

\* the R key: game_model.reset()
KeyR ==
    /\ reset(None)
    /\ successes' = 0
    /\ free' = 0
    /\ UNCHANGED timers

\* model.Game(first_player): a new game with the first player supplied
NewGame(fp) ==
    /\ reset(fp)
    /\ successes' = 0
    /\ free' = 0
    /\ UNCHANGED timers

Init ==
    /\ first_player \in {RED, BLUE}
    /\ board = [xyz \in iter_xyz |-> Square_reset]
    /\ scores = [i \in {RED, BLUE} |-> 0]
    /\ move_count = 0
    /\ status = <<>>
    /\ sent = [k \in 1..Len(RESET_SIGNALS) |->
                 Signal(RESET_SIGNALS[k], <<>>, Occupied(board),
                        move_count, status)]
    /\ result = RETURNED
    /\ op = "reset"
    /\ successes = 0
    /\ free = 0
    /\ Scheduler__init__

Next ==
    \/ \E xyz \in iter_xyz : MouseButtonDown(xyz)
    \/ KeyR
    \/ \E fp \in {RED, BLUE} : NewGame(fp)

Spec == Init /\ [][Next]_vars

(***************************************************************************)
(* The status lines of the score board (lib/view.py)                       *)
(***************************************************************************)
MAX_SHOWABLE_STATUS_LINES == 3

\* Given RED or BLUE, return 'Red' or 'Blue'
square_value_to_string(value) == IF value = RED THEN "Red" ELSE "Blue"

\* fmt % args, for the four status formats
Format(fmt, args) ==
    IF fmt = STATUS_POINTS_EARNED
    THEN ToString(args[1]) \o " point" \o args[2] \o "!"
    ELSE IF fmt = STATUS_WINNER THEN args[1] \o " wins!!!"
    ELSE fmt

StatusLabel_calc_text_one_based(line_number, st) ==
    IF line_number < 1 \/ line_number > Len(st) THEN ""
    ELSE LET fmt == st[line_number][1]
             args == st[line_number][2]
         IN  Format(fmt, IF fmt = STATUS_WINNER
                         THEN <<square_value_to_string(args[1])>>
                         ELSE args)

\* StatusLabel.calc_text: the text of the label of line line_number (from 0)
\* when the status is st; IndexError gives the empty text
StatusLabel_calc_text(line_number, st) ==
    IF line_number >= Len(st) THEN ""
    ELSE LET fmt == st[line_number + 1][1]
             args == st[line_number + 1][2]
         IN  Format(fmt, IF fmt = STATUS_WINNER
                         THEN <<square_value_to_string(args[1])>>
                         ELSE args)

\* the labels ScoreBoard creates, as they read after a STATUS CHANGED
StatusLabels(st) ==
    [i \in 0..(MAX_SHOWABLE_STATUS_LINES - 1) |-> StatusLabel_calc_text(i, st)]

(***************************************************************************)
(* The scheduler driven by the main loop and by presentation code          *)
(***************************************************************************)
\* the game's part of the state
engine == <<board, scores, move_count, first_player, status, sent, result, op,
            successes, free>>

\* scheduler.set_timer(milliseconds, callback), called by presentation code
SetTimer(milliseconds, callback) ==
    /\ raised = None
    /\ milliseconds # 0 => Len(waiting) < MaxWaiting
    /\ waiting' = set_timer(waiting, now, milliseconds, callback)
    /\ called' = <<>>
    /\ UNCHANGED <<now, raised, engine>>

\* clock.tick(FRAMES_PER_SEC): time passes between two frames
ClockTick ==
    /\ raised = None
    /\ now < MaxNow
    /\ now' = now + 1
    /\ called' = <<>>
    /\ UNCHANGED <<waiting, raised, engine>>

\* scheduler.tick() in the main loop; a ValueError it raises ends the program
SchedulerTick ==
    /\ raised = None
    /\ LET r == tick(waiting, now)
       IN  /\ waiting' = r.waiting
           /\ called' = r.called
           /\ raised' = r.raised
    /\ UNCHANGED <<now, engine>>

NextTimer ==
    \/ \E milliseconds \in {0} \cup Delays : \E callback \in Callbacks :
          SetTimer(milliseconds, callback)
    \/ ClockTick
    \/ SchedulerTick

SpecTimer == Init /\ [][NextTimer]_vars

(***************************************************************************)
(* Types                                                                   *)
(***************************************************************************)
TypeOK ==
    /\ board \in [iter_xyz -> [value : {BLANK, RED, BLUE}, special : BOOLEAN]]
    /\ scores \in [{RED, BLUE} -> Nat]
    /\ move_count \in 0..TOTAL_SQUARES
    /\ first_player \in {RED, BLUE}
    /\ result \in {RETURNED, WRONG_LEVEL, SQUARE_TAKEN}
    /\ op \in {"reset", "move"}
    /\ successes \in 0..TOTAL_SQUARES
    /\ free \in 0..MaxFree
    /\ now \in 0..MaxNow
    /\ Len(waiting) <= MaxWaiting
    /\ \A k \in 1..Len(waiting) :
          waiting[k][1] \in 1..(MaxNow + 2) /\ waiting[k][2] \in Callbacks
    /\ raised \in {None, VALUE_ERROR}

(***************************************************************************)
(* Vocabulary of the properties                                            *)
(***************************************************************************)
Other(player) == CHOOSE q \in Players : q # player

\* the derived attributes as the data model states them
CurrentLevel == move_count \div 9
CurrentPlayer == IF move_count % 2 = 0 THEN first_player ELSE Other(first_player)
IsCurrentMoveSpecial == (move_count % 9) \in {1, 2, 6, 7}

MoveReturned == op = "move" /\ result = RETURNED
MoveFailed == op = "move" /\ result # RETURNED

SignalNames(log) == [k \in 1..Len(log) |-> log[k].signal]
Positions(list) == {list[k] : k \in 1..Len(list)}

EmptyBoard == [xyz \in iter_xyz |-> [value |-> BLANK, special |-> FALSE]]

\* the winning paths through xyz whose three squares player owns on board b
Completed(b, player, xyz) ==
    {i \in 1..Len(_winning_paths) :
        /\ xyz \in Positions(_winning_paths[i])
        /\ \A q \in Positions(_winning_paths[i]) : b[q].value = player}

Worth(b, i) ==
    IF \A q \in Positions(_winning_paths[i]) : b[q].special THEN 2 ELSE 1

RECURSIVE TotalWorth(_, _)
TotalWorth(b, paths) ==
    IF paths = {} THEN 0
    ELSE LET i == CHOOSE j \in paths : TRUE
         IN  Worth(b, i) + TotalWorth(b, paths \ {i})

ScoreSignals(log) == {k \in 1..Len(log) : log[k].signal = "SCORE CHANGED"}

(***************************************************************************)
(* C1 .. C10                                                               *)
(***************************************************************************)

\* C1: for every position of the grid, move raises "Wrong level" exactly
\* when the position's z differs from the current level, raises "Square
\* taken" exactly when z matches and the square is occupied, and returns
\* in every other case.
C1_MoveOutcome ==
    [][\A xyz \in iter_xyz : MouseButtonDown(xyz) =>
          /\ (result' = WRONG_LEVEL) <=> (xyz[3] # CurrentLevel)
          /\ (result' = SQUARE_TAKEN) <=>
                (xyz[3] = CurrentLevel /\ board[xyz].value # BLANK)
          /\ (result' = RETURNED) <=>
                (xyz[3] = CurrentLevel /\ board[xyz].value = BLANK)]_vars

C1_Witness ==
    /\ op = "move"
    /\ result = SQUARE_TAKEN
    /\ move_count > 9

\* C2: a move that raises leaves every square, both scores, move_count,
\* first_player and the status messages as they were, and sends no signal.
C2_FailedMoveChangesNothing ==
    [][(op' = "move" /\ result' # RETURNED) =>
          /\ board' = board
          /\ scores' = scores
          /\ move_count' = move_count
          /\ first_player' = first_player
          /\ status' = status
          /\ sent' = <<>>]_vars

C2_Witness ==
    /\ MoveFailed
    /\ status # <<>>
    /\ sent = <<>>
    /\ scores[RED] + scores[BLUE] > 0

\* C3: a move that returns adds exactly 1 to move_count, a move that raises
\* leaves it alone, and only reset ever lowers it.
C3_MoveCountSteps ==
    [][/\ (op' = "move" /\ result' = RETURNED) => move_count' = move_count + 1
       /\ (op' = "move" /\ result' # RETURNED) => move_count' = move_count
       /\ move_count' < move_count => op' = "reset"]_vars

C3_Witness ==
    /\ MoveReturned
    /\ move_count = 14
    /\ free = 1

\* C4: after 27 moves have returned since the last reset the game is done
\* and no square is blank; after fewer it is not done.
C4_DoneAfter27 ==
    /\ successes = 27 =>
          /\ done(move_count)
          /\ \A xyz \in iter_xyz : board[xyz].value # BLANK
    /\ successes < 27 => ~done(move_count)

C4_Witness ==
    /\ successes = 27
    /\ MoveFailed

\* C5: a move that returns sends BOARD CHANGED (the square written,
\* move_count not yet incremented), then SCORE CHANGED if points were
\* earned, then PLAYER CHANGED (move_count incremented), then LEVEL CHANGED
\* if the new move_count is a multiple of 9, then STATUS CHANGED (all the
\* move's status messages appended), and nothing else.
C5_MoveSignals ==
    [][(op' = "move" /\ result' = RETURNED) =>
          LET expected ==
                  <<"BOARD CHANGED">>
                    \o (IF scores' # scores THEN <<"SCORE CHANGED">> ELSE <<>>)
                    \o <<"PLAYER CHANGED">>
                    \o (IF move_count' % 9 = 0 THEN <<"LEVEL CHANGED">> ELSE <<>>)
                    \o <<"STATUS CHANGED">>
              n == Len(sent')
          IN  /\ SignalNames(sent') = expected
              /\ sent'[1].occupied = Occupied(board) + 1
              /\ sent'[1].move_count = move_count
              /\ \A k \in 1..n : sent'[k].signal = "PLAYER CHANGED" =>
                    sent'[k].move_count = move_count + 1
              /\ sent'[n].move_count = move_count'
              /\ sent'[n].nstatus = Len(status')]_vars

C5_Witness ==
    /\ MoveReturned
    /\ SignalNames(sent) = <<"BOARD CHANGED", "SCORE CHANGED", "PLAYER CHANGED",
                             "LEVEL CHANGED", "STATUS CHANGED">>
    /\ Len(status) = 2

\* C6 as stated: reset sends the five signals once each in the order
\* board, score, player, level, status.
C6_TableOrder ==
    op = "reset" =>
        SignalNames(sent) = <<"BOARD CHANGED", "SCORE CHANGED", "PLAYER CHANGED",
                              "LEVEL CHANGED", "STATUS CHANGED">>

\* C6 as amended: reset sends the five signals once each in the order
\* level, score, board, player, status.
C6_ResetSignals ==
    op = "reset" =>
        SignalNames(sent) = <<"LEVEL CHANGED", "SCORE CHANGED", "BOARD CHANGED",
                              "PLAYER CHANGED", "STATUS CHANGED">>

C6_Witness ==
    /\ op = "reset"
    /\ Len(sent) = 5
    /\ first_player = RED

\* C7: reset leaves every square blank and not special, both scores 0,
\* move_count 0 and no status message, whatever the state before; the first
\* player is the one supplied when one is supplied; a reset right after a
\* reset changes nothing but possibly the first player.
C7_Reset ==
    /\ [][op' = "reset" =>
             /\ board' = EmptyBoard
             /\ scores' = [i \in Players |-> 0]
             /\ move_count' = 0
             /\ status' = <<>>]_vars
    /\ [][\A fp \in Players : NewGame(fp) => first_player' = fp]_vars
    /\ [][(op = "reset" /\ op' = "reset") =>
             /\ board' = board
             /\ scores' = scores
             /\ move_count' = move_count
             /\ status' = status]_vars

C7_Witness ==
    /\ op = "reset"
    /\ board = EmptyBoard
    /\ first_player = BLUE

\* C8: a move at xyz that returns, made when move_count = n, gives the
\* square the value of the player whose turn it was (first_player if n is
\* even, else the other) and makes it special iff n mod 9 is 1, 2, 6 or 7.
C8_SquareWritten ==
    [][(op' = "move" /\ result' = RETURNED) =>
       \A xyz \in iter_xyz : MouseButtonDown(xyz) =>
          /\ board'[xyz].value = CurrentPlayer
          /\ board'[xyz].special = IsCurrentMoveSpecial]_vars

C8_Witness ==
    /\ MoveReturned
    /\ move_count = 11
    /\ \E xyz \in iter_xyz :
          /\ xyz[3] = 1
          /\ board[xyz] = [value |-> first_player, special |-> TRUE]

\* C9: a move at xyz that returns adds to the mover's score the sum, over
\* the winning paths through xyz that the mover owns entirely afterwards,
\* of 2 for a path of three special squares and 1 for any other; the other
\* player's score stays.
C9_PointsEarned ==
    [][(op' = "move" /\ result' = RETURNED) =>
       \A xyz \in iter_xyz : MouseButtonDown(xyz) =>
          /\ scores'[CurrentPlayer] =
                scores[CurrentPlayer]
                  + TotalWorth(board', Completed(board', CurrentPlayer, xyz))
          /\ scores'[Other(CurrentPlayer)] = scores[Other(CurrentPlayer)]]_vars

C9_Witness ==
    /\ MoveReturned
    /\ Len(status) >= 1
    /\ status[1] = <<STATUS_POINTS_EARNED, <<2, "s">> >>
    /\ \E k \in ScoreSignals(sent) : Len(sent[k].xyzs_included) = 3

\* C10: a move that returns sends SCORE CHANGED iff it earned points, and
\* the positions the signal carries are exactly those of the winning paths
\* the move completed.
C10_ScoreChanged ==
    [][(op' = "move" /\ result' = RETURNED) =>
       \A xyz \in iter_xyz : MouseButtonDown(xyz) =>
          /\ (ScoreSignals(sent') # {}) <=>
                (scores'[RED] + scores'[BLUE] > scores[RED] + scores[BLUE])
          /\ \A k \in ScoreSignals(sent') :
                Positions(sent'[k].xyzs_included) =
                    UNION {Positions(_winning_paths[i]) :
                              i \in Completed(board', CurrentPlayer, xyz)}]_vars

C10_Witness ==
    /\ MoveReturned
    /\ \E k \in ScoreSignals(sent) :
          /\ Len(sent[k].xyzs_included) = 6
          /\ Cardinality(Positions(sent[k].xyzs_included)) = 5

(***************************************************************************)
(* C11 .. C20                                                              *)
(***************************************************************************)
InGrid(p) == p[1] \in 0..2 /\ p[2] \in 0..2 /\ p[3] \in 0..2

Directions ==
    {<<dx, dy, dz>> : dx \in -1..1, dy \in -1..1, dz \in -1..1} \ {<<0, 0, 0>>}

Step(p, d, n) == <<p[1] + n * d[1], p[2] + n * d[2], p[3] + n * d[3]>>

\* the straight lines of three positions inside the cube
StraightLines ==
    {{p, Step(p, d, 1), Step(p, d, 2)} :
        <<p, d>> \in {pd \in iter_xyz \X Directions : InGrid(Step(pd[1], pd[2], 2))}}

\* a move of this game has returned, so _handle_tictactoe has run and the
\* table it builds on its first call exists
TableBuilt == successes > 0

\* the entries of the table as sets of positions
TableSets == {Positions(_winning_paths[i]) : i \in 1..Len(_winning_paths)}

\* 49 entries, each of 3 distinct positions inside the grid, no two entries
\* with the same set of positions
Has49DistinctTriples ==
    /\ Len(_winning_paths) = 49
    /\ \A i \in 1..Len(_winning_paths) :
          /\ Len(_winning_paths[i]) = 3
          /\ Cardinality(Positions(_winning_paths[i])) = 3
          /\ \A p \in Positions(_winning_paths[i]) : InGrid(p)
    /\ \A i, j \in 1..Len(_winning_paths) :
          Positions(_winning_paths[i]) = Positions(_winning_paths[j]) => i = j

\* C11: the table of winning paths the game scans has exactly 49 entries,
\* each of exactly 3 distinct positions inside the grid, and no two entries
\* hold the same set of positions.
C11_TableShape == TableBuilt => Has49DistinctTriples

\* the table exists once _handle_tictactoe has run
C11_Witness ==
    /\ MoveReturned
    /\ successes = 1
    /\ Cardinality(TableSets) = 49

\* C12: a set of three positions is an entry of the table iff it is
\* {p, p+d, p+2d} inside the cube for some non-zero direction d.
C12_AllLinesOnly == TableBuilt => TableSets = StraightLines

\* a stair across the three levels of the table has been scored
C12_Witness ==
    /\ MoveReturned
    /\ \E k \in ScoreSignals(sent) :
          \E line \in StraightLines :
             /\ Cardinality({p[3] : p \in line}) = 3
             /\ Cardinality({<<p[1], p[2]>> : p \in line}) = 3
             /\ line \subseteq Positions(sent[k].xyzs_included)

\* z never increases along an entry, so its first member has its greatest z
ZNeverIncreases ==
    \A i \in 1..Len(_winning_paths) :
       LET path == _winning_paths[i]
       IN  /\ \A k \in 1..(Len(path) - 1) : path[k][3] >= path[k + 1][3]
           /\ \A k \in 1..Len(path) : path[1][3] >= path[k][3]

\* C17: in every entry of the table the game scans z never increases from
\* one member to the next, so the first member has the greatest z of the
\* path.
C17_HighestFirst == TableBuilt => ZNeverIncreases

\* a vertical line, listed top first, has been scored
C17_Witness ==
    /\ MoveReturned
    /\ \E k \in ScoreSignals(sent) :
          LET xyzs == sent[k].xyzs_included
          IN  \E n \in 1..(Len(xyzs) - 2) :
                 /\ xyzs[n][3] = 2 /\ xyzs[n + 1][3] = 1 /\ xyzs[n + 2][3] = 0
                 /\ <<xyzs[n][1], xyzs[n][2]>> = <<xyzs[n + 2][1], xyzs[n + 2][2]>>

\* the names of the messages in a status list
StatusNames(st) == {st[k][1] : k \in 1..Len(st)}

\* C13: after a move that returned, LEVEL CHANGED was sent exactly when the
\* new move count is 9, 18 or 27 (the multiples of 9 a move can reach), and
\* "The only way is up!" is in the status exactly when the new move count is
\* 9 or 18; the 9th move of a game has both.
C13_LevelBoundary ==
    MoveReturned =>
       /\ (move_count % 9 = 0) <=> (move_count \in {9, 18, 27})
       /\ ("LEVEL CHANGED" \in Positions(SignalNames(sent)))
             <=> (move_count \in {9, 18, 27})
       /\ (STATUS_ONLY_UP \in StatusNames(status)) <=> (move_count \in {9, 18})
       /\ successes = 9 => /\ "LEVEL CHANGED" \in Positions(SignalNames(sent))
                           /\ STATUS_ONLY_UP \in StatusNames(status)

C13_Witness ==
    /\ MoveReturned
    /\ successes = 9
    /\ move_count = 9
    /\ "LEVEL CHANGED" \in Positions(SignalNames(sent))
    /\ STATUS_ONLY_UP \in StatusNames(status)

\* the places of the end-of-game messages in a status list
EndMessages(st) == {k \in 1..Len(st) : st[k][1] \in {STATUS_TIE, STATUS_WINNER}}

\* C14: after the 27th move has returned, the status has exactly one
\* end-of-game message and it is the last one: the tie message when the scores
\* are equal, otherwise the winner message with the player whose score is
\* strictly higher.  After a move that leaves the game unfinished the status
\* has no tie or winner message.
C14_EndMessage ==
    MoveReturned =>
       /\ move_count = 27 =>
             /\ EndMessages(status) = {Len(status)}
             /\ Len(status) > 0
             /\ LET last == status[Len(status)]
                IN  /\ scores[RED] = scores[BLUE] =>
                          last[1] = STATUS_TIE /\ last[2] = <<>>
                    /\ \A player \in {RED, BLUE} :
                          scores[player] > scores[Other(player)] =>
                             last[1] = STATUS_WINNER /\ last[2] = <<player>>
       /\ move_count < 27 => EndMessages(status) = {}

C14_Witness ==
    /\ MoveReturned
    /\ move_count = 27
    /\ scores[RED] > scores[BLUE]
    /\ status[Len(status)] = <<STATUS_WINNER, <<RED>> >>

(***************************************************************************)
(* A game opened by the first player along the row y = 0 of the first      *)
(* level                                                                   *)
(***************************************************************************)
\* the row y = 0 of level 0, in the order the first player clicks it
FirstRow == [k \in 1..SIZE |-> <<RANGE_SIZE[k], 0, 0>>]

\* MOUSEBUTTONDOWN on the square xyz while the row is being played: the first
\* player clicks the squares of the row in order, the other player clicks any
\* square; game_model.move(xyz), ValueError ignored
RowClick(xyz) ==
    /\ \E k \in 1..SIZE : board[FirstRow[k]].value = BLANK
    /\ current_player(move_count, first_player) = first_player
          => /\ move_count \div 2 < SIZE
             /\ xyz = FirstRow[(move_count \div 2) + 1]
    /\ move(xyz)
    /\ successes' = IF result' = RETURNED THEN successes + 1 ELSE successes
    /\ free' = free
    /\ UNCHANGED timers

NextRow ==
    \/ \E xyz \in iter_xyz : RowClick(xyz)
    \/ KeyR

SpecRow == Init /\ [][NextRow]_vars

\* the first player holds the whole row after five moves: it played (0,0,0),
\* (1,0,0) and (2,0,0) at move counts 0, 2 and 4 and the other player played
\* two other squares of level 0 at move counts 1 and 3
RowPlayed ==
    /\ MoveReturned
    /\ successes = 5
    /\ move_count = 5
    /\ \A k \in 1..SIZE : board[FirstRow[k]].value = first_player
    /\ Cardinality({xyz \in iter_xyz :
                       xyz[3] = 0 /\ board[xyz].value = Other(first_player)}) = 2

\* C15: while the first player plays the row (0,0,0), (1,0,0), (2,0,0) at
\* move counts 0, 2, 4 and the other player plays two other squares of level
\* 0, no move before the fifth sends SCORE CHANGED or changes a score; the
\* fifth move, the first player's third, sends SCORE CHANGED once for that
\* row and leaves the first player with 1 point and the other player with 0.
C15_RowScoresOne ==
    /\ (MoveReturned /\ successes < 5) =>
          /\ ScoreSignals(sent) = {}
          /\ scores = [i \in {RED, BLUE} |-> 0]
    /\ (MoveReturned /\ successes = 5) => RowPlayed
    /\ RowPlayed =>
          /\ Cardinality(ScoreSignals(sent)) = 1
          /\ \A k \in ScoreSignals(sent) : sent[k].xyzs_included = FirstRow
          /\ board[FirstRow[2]].special
          /\ ~board[FirstRow[1]].special /\ ~board[FirstRow[3]].special
          /\ scores[first_player] = 1
          /\ scores[Other(first_player)] = 0

C15_Witness ==
    /\ RowPlayed
    /\ Cardinality(ScoreSignals(sent)) = 1
    /\ scores[first_player] = 1
    /\ board[<<1, 1, 0>>].value = Other(first_player)
    /\ board[<<2, 2, 0>>].value = Other(first_player)

\* for every square, the numbers of the paths through it, in table order
Through ==
    [xyz \in iter_xyz |->
       SelectSeq([i \in 1..Len(_winning_paths) |-> i],
                 LAMBDA i : InPath(xyz, _winning_paths[i]))]

\* the loop of _handle_tictactoe without the test on the path's first z: every
\* path through xyz is counted, from the n-th such path on
RECURSIVE ScanEveryPath(_, _, _, _, _)
ScanEveryPath(b, player, xyz, n, acc) ==
    IF n > Len(Through[xyz]) THEN acc
    ELSE LET path == _winning_paths[Through[xyz][n]]
             hits == Hits(b, player, path)
             special_hits == SpecialHits(b, player, path)
         IN  ScanEveryPath(b, player, xyz, n + 1,
               [points_earned |-> acc.points_earned
                                    + PathPoints(hits, special_hits),
                xyzs_included |-> acc.xyzs_included
                                    \o PathIncluded(hits, path)])

\* the squares move accepts in the current state
Accepted ==
    {xyz \in iter_xyz : ~WrongLevel(xyz, move_count) /\ ~Taken(xyz, board)}

\* the board _handle_tictactoe sees when move has written the square xyz
Written(xyz) ==
    [board EXCEPT ![xyz] =
       [value |-> current_player(move_count, first_player),
        special |-> current_move_special(move_count)]]

NoneYet == [points_earned |-> 0, xyzs_included |-> <<>>]

\* C16: in every reachable state and for every square move accepts there,
\* the points earned and the list of squares to highlight that
\* _handle_tictactoe computes, skipping the paths that start above the move,
\* equal those of the same loop over all 49 paths without the skip; no
\* square above the current level is occupied.
C16_SkipChangesNothing ==
    /\ \A xyz \in iter_xyz :
          xyz[3] > CurrentLevel => board[xyz].value = BLANK
    /\ \A xyz \in Accepted :
          ScanPaths(Written(xyz), CurrentPlayer, xyz, 1, NoneYet)
             = ScanEveryPath(Written(xyz), CurrentPlayer, xyz, 1, NoneYet)

\* a move has returned, and a move on a level below the top one would now
\* score although paths through its square are skipped
C16_Witness ==
    /\ MoveReturned
    /\ \E xyz \in Accepted :
          /\ xyz[3] < 2
          /\ ScanPaths(Written(xyz), CurrentPlayer, xyz, 1, NoneYet).points_earned > 0
          /\ \E i \in 1..Len(_winning_paths) :
                /\ SkipAbove(xyz[3], _winning_paths[i])
                /\ InPath(xyz, _winning_paths[i])

\* the points the player to move gains in a step
Gained == scores'[CurrentPlayer] - scores[CurrentPlayer]

\* C18: the status a returning move leaves holds only what that move
\* appended, whatever the status was before: first the points message,
\* present exactly when the move earned points, carrying the points and the
\* plural "s" unless exactly 1 point was earned; then at most one message,
\* which is the ascend, the tie or the winner message.
C18_StatusRebuilt ==
    [][(op' = "move" /\ result' = RETURNED) =>
          LET first == IF Gained > 0 THEN 1 ELSE 0
          IN  /\ Len(status') \in {first, first + 1}
              /\ Gained > 0 =>
                    status'[1] = <<STATUS_POINTS_EARNED,
                                   <<Gained, IF Gained = 1 THEN "" ELSE "s">> >>
              /\ Len(status') = first + 1 =>
                    status'[first + 1][1]
                       \in {STATUS_ONLY_UP, STATUS_TIE, STATUS_WINNER}]_vars

\* a move earned 1 point and completed a level
C18_Witness ==
    /\ MoveReturned
    /\ status = << <<STATUS_POINTS_EARNED, <<1, "">> >>, <<STATUS_ONLY_UP, <<>> >> >>

\* the occupied squares of level z
OnLevel(z) == {xyz \in iter_xyz : xyz[3] = z /\ board[xyz].value # BLANK}

\* C19: in every reachable state move_count is in 0..27 and is the number of
\* occupied squares; every square below the current level is occupied, every
\* square above it is blank, and while the game is not done exactly
\* move_count mod 9 squares of the current level are occupied.
C19_BottomUp ==
    /\ move_count \in 0..27
    /\ move_count = Cardinality({xyz \in iter_xyz : board[xyz].value # BLANK})
    /\ \A xyz \in iter_xyz :
          /\ xyz[3] < CurrentLevel => board[xyz].value # BLANK
          /\ xyz[3] > CurrentLevel => board[xyz].value = BLANK
    /\ move_count # 27 => Cardinality(OnLevel(CurrentLevel)) = move_count % 9

\* the second level is partly filled
C19_Witness ==
    /\ MoveReturned
    /\ move_count = 13
    /\ Cardinality(OnLevel(0)) = 9
    /\ Cardinality(OnLevel(1)) = 4
    /\ Cardinality(OnLevel(2)) = 0

\* the squares a step changes
Changed == {q \in iter_xyz : board'[q] # board[q]}

\* C20: a blank square is never special; a move that returns changes the
\* value and special flag of the square clicked, from blank to a player's
\* mark, and of no other square; and no step other than a reset changes a
\* square that is occupied.
C20_OneSquare ==
    /\ [](\A q \in iter_xyz : board[q].value = BLANK => ~board[q].special)
    /\ [][(op' = "move" /\ result' = RETURNED) =>
             \A xyz \in iter_xyz :
                MouseButtonDown(xyz) =>
                   /\ Changed = {xyz}
                   /\ board[xyz].value = BLANK
                   /\ board'[xyz].value \in {RED, BLUE}]_vars
    /\ [][op' # "reset" =>
             \A q \in iter_xyz :
                board[q].value # BLANK => board'[q] = board[q]]_vars

\* a special and a plain square stand on the board with blank ones about
C20_Witness ==
    /\ MoveReturned
    /\ move_count = 2
    /\ \E q \in iter_xyz : board[q].value # BLANK /\ board[q].special
    /\ \E q \in iter_xyz : board[q].value # BLANK /\ ~board[q].special
    /\ Cardinality({q \in iter_xyz : board[q] = Square_reset}) = 25

(***************************************************************************)
(* C21 .. C24                                                              *)
(***************************************************************************)

\* C21: a game never has more than 27 moves that returned since its last
\* reset.  When move_count is 27 the current level is 3; a move on any
\* square of the grid then raises "Wrong level", not "Square taken", and
\* leaves the game as it was, so the game stays done until a reset.
C21_DoneStaysDone ==
    /\ [](successes <= 27 /\ (move_count = 27 => CurrentLevel = 3))
    /\ [][(move_count = 27 /\ op' = "move") =>
             /\ \A xyz \in iter_xyz : MouseButtonDown(xyz)
             /\ result' = WRONG_LEVEL
             /\ UNCHANGED <<board, scores, move_count, first_player, status>>
             /\ sent' = <<>>]_vars
    /\ [][(move_count = 27 /\ op' # "reset") => move_count' = 27]_vars

\* a click on the full board has been refused
C21_Witness ==
    /\ MoveFailed
    /\ result = WRONG_LEVEL
    /\ move_count = 27
    /\ successes = 27
    /\ \A xyz \in iter_xyz : board[xyz].value # BLANK

\* the special squares of level z that hold the mark of player
SpecialOwned(z, player) ==
    {xyz \in iter_xyz : /\ xyz[3] = z
                        /\ board[xyz].value = player
                        /\ board[xyz].special}

\* the paths of a xyzs_included list: its members three by three
Triples(xyzs) ==
    {Positions(SubSeq(xyzs, n, n + 2)) : n \in {m \in 1..Len(xyzs) : m % 3 = 1}}

\* C22: on every level a player never owns more than 2 special squares, and
\* owns exactly 2 of the 4 once the level is full; so no path inside one
\* level holds three special squares of one player, and every path a move
\* is awarded 2 points for has a square on each of the three levels.
C22_SpecialsSplit ==
    /\ \A z \in 0..2 : \A player \in {RED, BLUE} :
          /\ Cardinality(SpecialOwned(z, player)) <= 2
          /\ Cardinality(OnLevel(z)) = 9 =>
                Cardinality(SpecialOwned(z, player)) = 2
    /\ TableBuilt =>
          \A path \in TableSets :
             Cardinality({p[3] : p \in path}) = 1 =>
                \A player \in {RED, BLUE} :
                   ~(\A p \in path : board[p].value = player /\ board[p].special)
    /\ MoveReturned =>
          \A k \in ScoreSignals(sent) :
             \A path \in Triples(sent[k].xyzs_included) :
                (\A p \in path : board[p].special) => {p[3] : p \in path} = {0, 1, 2}

\* a move on the top level has just been awarded 2 points for a path of
\* three special squares, the two lower levels being full
C22_Witness ==
    /\ MoveReturned
    /\ \A player \in {RED, BLUE} :
          Cardinality(SpecialOwned(0, player)) = 2
             /\ Cardinality(SpecialOwned(1, player)) = 2
    /\ \E k \in ScoreSignals(sent) :
          \E path \in Triples(sent[k].xyzs_included) :
             /\ \A p \in path : board[p].special
             /\ {p[3] : p \in path} = {0, 1, 2}

\* the text a status message stands for
Reads(message) ==
    IF message[1] = STATUS_ONLY_UP THEN "The only way is up!"
    ELSE IF message[1] = STATUS_TIE THEN "A tie!"
    ELSE IF message[1] = STATUS_WINNER
         THEN (IF message[2][1] = "X" THEN "Red wins!!!" ELSE "Blue wins!!!")
    ELSE IF message[2][1] = 1 THEN "1 point!"
    ELSE ToString(message[2][1]) \o " points!"

\* C23: in every reachable state the status holds at most 2 messages, never
\* the ascend message together with a tie or winner message; the score board
\* has 3 status labels, the k-th message is the text of the k-th label and
\* the labels beyond the status are empty, so every message is displayed.
\* The labels were drawn for this status: the last signal of every
\* operation that returned is STATUS CHANGED, sent when the status was
\* complete.
C23_StatusFits ==
    /\ Len(status) <= 2
    /\ ~(STATUS_ONLY_UP \in StatusNames(status) /\ EndMessages(status) # {})
    /\ DOMAIN StatusLabels(status) = 0..2
    /\ \A k \in 1..Len(status) : StatusLabels(status)[k - 1] = Reads(status[k])
    /\ \A i \in 0..2 : i >= Len(status) => StatusLabels(status)[i] = ""
    /\ result = RETURNED =>
          /\ Len(sent) > 0
          /\ sent[Len(sent)].signal = "STATUS CHANGED"
          /\ sent[Len(sent)].nstatus = Len(status)

\* two messages on two labels, the third label empty
C23_Witness ==
    /\ MoveReturned
    /\ Len(status) = 2
    /\ StatusLabels(status)[0] = "2 points!"
    /\ StatusLabels(status)[1] = "Red wins!!!"
    /\ StatusLabels(status)[2] = ""

\* the registrations of the waiting list w that are due when the clock reads
\* clock, in the order of the list
Due(w, clock) == SelectSeq(w, LAMBDA e : e[1] <= clock)

\* a due callback that cancels a registration due in the same tick and
\* standing after its own in the waiting list
CancelsLaterDue(w, clock) ==
    \E i, j \in 1..Len(Due(w, clock)) :
       /\ i < j
       /\ Due(w, clock)[i][2] = CANCEL
       /\ Due(w, clock)[j][2] = FIX_COLOR

\* C24: a callback registered with set_timer(ms, cb), ms > 0, when the clock
\* reads t is on the waiting list with the time t + ms; every tick calls
\* each registration that is due exactly once, leaves no due registration
\* waiting, and completes without an exception whatever the callbacks it
\* calls do with set_timer; set_timer(0, cb) leaves no registration of cb
\* waiting, so a cancelled registration is never called.
C24_TickNeverFails ==
    /\ [][\A callback \in Callbacks : \A milliseconds \in Delays :
             SetTimer(milliseconds, callback) =>
                waiting' = Append(waiting, <<now + milliseconds, callback>>)]_vars
    /\ [][\A callback \in Callbacks :
             SetTimer(0, callback) =>
                \A k \in 1..Len(waiting') : waiting'[k][2] # callback]_vars
    /\ [][SchedulerTick =>
             /\ raised' = None
             /\ called' = Due(waiting, now)
             /\ \A k \in 1..Len(waiting') : waiting'[k][1] > now]_vars

\* tick has raised ValueError: the cancelling callback was called, the
\* registration it cancelled was not, and tick went no further
C24_Witness ==
    /\ raised = VALUE_ERROR
    /\ Len(called) = 1
    /\ called[1][2] = CANCEL
    /\ waiting = <<>>

\* What C24 states holds of every tick but those in which a due callback
\* cancels a registration that is due in the same tick and stands later in
\* the waiting list: exactly those ticks raise ValueError, having called
\* the due registrations up to the cancelled one only.
C24_TickUnlessCancelled ==
    /\ [][\A callback \in Callbacks :
             SetTimer(0, callback) =>
                \A k \in 1..Len(waiting') : waiting'[k][2] # callback]_vars
    /\ [][SchedulerTick =>
             /\ (raised' = VALUE_ERROR) <=> CancelsLaterDue(waiting, now)
             /\ raised' = None =>
                   /\ called' = Due(waiting, now)
                   /\ \A k \in 1..Len(waiting') : waiting'[k][1] > now
             /\ raised' = VALUE_ERROR =>
                   /\ Len(called') < Len(Due(waiting, now))
                   /\ called' = SubSeq(Due(waiting, now), 1, Len(called'))]_vars

=============================================================================
